---- MODULE Spec2Model ----
(***************************************************************************)
(* Model of BRAITER Smart PDF Parser: the functions of parser_logic.py     *)
(* (parse_pdf, detect_language, extract_images_from_pdf,                   *)
(* transform_markdown_with_gpt) and the Streamlit script streamlit_app.py  *)
(* (session-state parse cache, pipeline order, handle_export_buttons).     *)
(*                                                                         *)
(* Python strings are sequences of units.  A unit is one character, or an  *)
(* opaque chunk of a message literal that the code never looks into.  The  *)
(* two emoji of the message prefixes are written by their code points      *)
(* ("U+26A0", "U+FE0F", "U+2139").  External services (LlamaParse,         *)
(* langdetect, pdf2image, OpenAI, python-docx) are inputs: each call's     *)
(* outcome is drawn from a small set of behaviours, an outcome being a     *)
(* returned value or a raised subclass of Exception.                       *)
(***************************************************************************)
EXTENDS Integers, Sequences, FiniteSets, TLC

VARIABLES
    pc,            \* "call" before the function under check ran, "return" after
    dl_text,       \* detect_language: argument text
    dl_detector,   \* detect_language: what langdetect.detect does when called
    dl_ret,        \* detect_language: the outcome of the call
    pp_key,        \* parse_pdf: whether LLAMA_CLOUD_API_KEY was set at import
    pp_parser,     \* parse_pdf: what parser.load_data does when called
    pp_ret,        \* parse_pdf: the outcome of the call
    tg_key,        \* transform_markdown_with_gpt: whether OPENAI_API_KEY is set
    tg_markdown,   \* transform_markdown_with_gpt: argument markdown_text
    tg_prompt,     \* transform_markdown_with_gpt: argument prompt_type_or_custom
    tg_llm,        \* transform_markdown_with_gpt: what chat.completions.create does
    tg_ret,        \* transform_markdown_with_gpt: the outcome of the call
    ex_makedirs,   \* extract_images_from_pdf: whether os.makedirs succeeds
    ex_convert,    \* extract_images_from_pdf: what convert_from_path and img.save do
    ex_ret,        \* extract_images_from_pdf: the outcome of the call
    he_text,       \* handle_export_buttons: argument transformed_text
    he_ret,        \* handle_export_buttons: what the call put on the page
    env,           \* the app's process: the API keys it holds, whether parser_logic imports
    session_state, \* st.session_state of the one browser session
    temp_files,    \* how many temp files NamedTemporaryFile has created
    run,           \* the current (or last) run of the script: its inputs and calls
    uploaded_prev, \* history: the name of the file of the last run that had one
    parses_for_name \* history: parse_pdf calls since the uploaded name last changed

vars_dl == <<dl_text, dl_detector, dl_ret>>
vars_pp == <<pp_key, pp_parser, pp_ret>>
vars_tg == <<tg_key, tg_markdown, tg_prompt, tg_llm, tg_ret>>
vars_ex == <<ex_makedirs, ex_convert, ex_ret>>
vars_he == <<he_text, he_ret>>
vars_app == <<env, session_state, temp_files, run, uploaded_prev, parses_for_name>>
vars_fn == <<vars_dl, vars_pp, vars_tg, vars_ex, vars_he>>
vars == <<pc, vars_dl, vars_pp, vars_tg, vars_ex, vars_he, vars_app>>

(***************************************************************************)
(* Bounds of the model.                                                    *)
(***************************************************************************)
MaxLangLen == 3
MaxDocs == 2
MaxDocLen == 2
MaxMarkdownLen == 2
MaxLlmLen == 2
MaxPages == 4
MaxExportLen == 5
MaxTempFiles == 5

(***************************************************************************)
(* Python str helpers.                                                     *)
(***************************************************************************)
Whitespace == {" ", "\n"}

SeqsUpTo(S, n) == UNION {[1..k -> S] : k \in 0..n}

\* s.startswith(p)
StartsWith(s, p) == Len(s) >= Len(p) /\ SubSeq(s, 1, Len(p)) = p

\* s.strip() == "" : every unit of s is whitespace
IsBlank(s) == \A i \in 1..Len(s) : s[i] \in Whitespace

\* s.strip()
Strip(s) ==
    IF IsBlank(s) THEN <<>>
    ELSE LET first == CHOOSE i \in 1..Len(s) :
                          s[i] \notin Whitespace /\ \A j \in 1..(i-1) : s[j] \in Whitespace
             last  == CHOOSE i \in 1..Len(s) :
                          s[i] \notin Whitespace /\ \A j \in (i+1)..Len(s) : s[j] \in Whitespace
         IN SubSeq(s, first, last)

\* sep.join(texts)
RECURSIVE Join(_, _)
Join(texts, sep) ==
    IF Len(texts) = 0 THEN <<>>
    ELSE IF Len(texts) = 1 THEN texts[1]
    ELSE texts[1] \o sep \o Join(Tail(texts), sep)

\* s.encode("utf-8", errors="replace").decode("utf-8"): a lone surrogate cannot
\* be encoded and becomes "?"; every other character survives the round trip
Surrogate == "U+D800"
EncodeDecodeReplace(s) == [i \in 1..Len(s) |-> IF s[i] = Surrogate THEN "?" ELSE s[i]]

\* ERROR_PREFIX, INFO_PREFIX (streamlit_app.py 29-30)
ERROR_PREFIX == <<"U+26A0", "U+FE0F", " ", "E", "r", "r", "o", "r", ":">>
INFO_PREFIX == <<"U+2139", "U+FE0F", " ", "I", "n", "f", "o", ":">>

(***************************************************************************)
(* parse_pdf (parser_logic.py 52-80).                                      *)
(***************************************************************************)
DocChars == {"a", " ", Surrogate}
\* a document of LlamaParse: doc.text is None (has_text = FALSE) or a string
Docs == [has_text : {TRUE}, text : SeqsUpTo(DocChars, MaxDocLen)]
            \cup {[has_text |-> FALSE, text |-> <<>>]}
\* parser.load_data: returns documents, or raises openai.APIError or another
\* subclass of Exception
ParserBehaviours ==
    [kind : {"docs"}, docs : SeqsUpTo(Docs, MaxDocs)]
        \cup [kind : {"APIError", "Exception"}, docs : {<<>>}]

pp_NoRet == [raised |-> FALSE, value |-> <<>>, parser_called |-> FALSE]

\* doc.text and doc.text.strip()
DocHasText(doc) == doc.has_text /\ Len(doc.text) > 0 /\ ~IsBlank(doc.text)

\* [doc.text for doc in documents if doc.text and doc.text.strip()]
RECURSIVE DocTexts(_)
DocTexts(documents) ==
    IF Len(documents) = 0 THEN <<>>
    ELSE (IF DocHasText(Head(documents)) THEN <<Head(documents).text>> ELSE <<>>)
             \o DocTexts(Tail(documents))

\* the variant without the except clauses of lines 75-80
parse_pdf_uncaught(key, behaviour) ==
    IF ~key
    THEN [raised |-> FALSE, parser_called |-> FALSE,
          value |-> ERROR_PREFIX \o <<" LLAMA_CLOUD_API_KEY not configured. PDF parsing cannot proceed.">>]
    ELSE IF behaviour.kind = "docs"
    THEN [raised |-> FALSE, parser_called |-> TRUE,
          value |-> EncodeDecodeReplace(Join(DocTexts(behaviour.docs), <<"\n", "\n">>))]
    ELSE [raised |-> TRUE, parser_called |-> TRUE, value |-> <<>>]

parse_pdf(key, behaviour) ==
    IF ~key
    THEN [raised |-> FALSE, parser_called |-> FALSE,
          value |-> ERROR_PREFIX \o <<" LLAMA_CLOUD_API_KEY not configured. PDF parsing cannot proceed.">>]
    ELSE IF behaviour.kind = "docs"
    THEN [raised |-> FALSE, parser_called |-> TRUE,
          value |-> EncodeDecodeReplace(Join(DocTexts(behaviour.docs), <<"\n", "\n">>))]
    ELSE IF behaviour.kind = "APIError"
    THEN [raised |-> FALSE, parser_called |-> TRUE,
          value |-> ERROR_PREFIX \o <<" PDF parsing failed due to an API issue (LlamaParse). Details: ", "<e>">>]
    ELSE [raised |-> FALSE, parser_called |-> TRUE,
          value |-> ERROR_PREFIX \o <<" Failed to parse PDF. The file might be corrupted, password-protected, or an unexpected error occurred. Details: ", "<e>">>]

(***************************************************************************)
(* detect_language (parser_logic.py 83-99).                                *)
(***************************************************************************)
LangChars == {"a", " ", "\n"}
LangCodes == {"en", "de"}
\* langdetect.detect: returns a language code or raises LangDetectException
DetectorBehaviours == [raises : BOOLEAN, code : LangCodes]

dl_NoRet == [raised |-> FALSE, value |-> "", detector_called |-> FALSE]

detect_language(text, detector) ==
    IF Len(text) = 0 \/ IsBlank(text)
    THEN [raised |-> FALSE, value |-> "Unknown (empty input)", detector_called |-> FALSE]
    ELSE IF detector.raises
    THEN [raised |-> FALSE, value |-> "Unknown", detector_called |-> TRUE]
    ELSE [raised |-> FALSE, value |-> detector.code, detector_called |-> TRUE]

(***************************************************************************)
(* transform_markdown_with_gpt (parser_logic.py 211-282).                  *)
(***************************************************************************)
\* PRESET_GPT_PROMPTS (lines 212-217), DEFAULT_GPT_PROMPT (line 218); the "table"
\* prompt is cut at "[...]", the code never looks into a prompt
PresetKeys == {"table", "summary", "report", "article"}
PRESET_GPT_PROMPTS ==
    [k \in PresetKeys |->
        CASE k = "table" -> "You are professional in analyzing and structuring documents. In the document, identify all tasks/questions and their respective answers. Structure them and convert the input into a well-structured CSV table. [...]"
          [] k = "summary" -> "You are an expert document summarizer. Convert the input markdown into a well-structured executive summary."
          [] k = "report" -> "You are a professional analyst. Turn the input markdown into a clear and concise report."
          [] k = "article" -> "You are a skilled writer. Transform the input markdown into a well-written, engaging article."]
DEFAULT_GPT_PROMPT == "You are a helpful assistant."

\* prompt_type_or_custom: None, or a string (a dictionary key: never looked into)
PyNone == [none |-> TRUE, str |-> ""]
PyStr(x) == [none |-> FALSE, str |-> x]
CustomPrompts == {"", " ", "Translate to French.", "table"}
PromptArgs == {PyNone} \cup {PyStr(x) : x \in PresetKeys \cup CustomPrompts}

MarkdownChars == {"a", " "}
LlmChars == {"a", " ", Surrogate}
\* client.chat.completions.create: returns a response whose first choice has the
\* content (a string, or None when has_content is FALSE), or raises one of the
\* openai errors the code names, or another subclass of Exception
LlmErrors == {"AuthenticationError", "RateLimitError", "APIConnectionError", "APIError", "Exception"}
LlmBehaviours ==
    [kind : {"response"}, has_content : {TRUE}, content : SeqsUpTo(LlmChars, MaxLlmLen)]
        \cup {[kind |-> "response", has_content |-> FALSE, content |-> <<>>]}
        \cup [kind : LlmErrors, has_content : {FALSE}, content : {<<>>}]

tg_NoRet == [raised |-> FALSE, value |-> <<>>, llm_called |-> FALSE, system_prompt |-> ""]

\* the variant of line 244 without the preset lookup
SelectPrompt_no_presets(prompt_type_or_custom) ==
    IF prompt_type_or_custom.none \/ prompt_type_or_custom.str = ""
    THEN DEFAULT_GPT_PROMPT
    ELSE prompt_type_or_custom.str

\* line 244: PRESET_GPT_PROMPTS.get(prompt_type_or_custom,
\*                                  prompt_type_or_custom or DEFAULT_GPT_PROMPT)
SelectPrompt(prompt_type_or_custom) ==
    IF ~prompt_type_or_custom.none /\ prompt_type_or_custom.str \in DOMAIN PRESET_GPT_PROMPTS
    THEN PRESET_GPT_PROMPTS[prompt_type_or_custom.str]
    ELSE IF prompt_type_or_custom.none \/ prompt_type_or_custom.str = ""
    THEN DEFAULT_GPT_PROMPT
    ELSE prompt_type_or_custom.str

tg_Error(prompt, called, chunk) ==
    [raised |-> FALSE, llm_called |-> called, system_prompt |-> prompt,
     value |-> ERROR_PREFIX \o chunk]

transform_markdown_with_gpt(key, markdown_text, prompt_type_or_custom, llm) ==
    IF ~key
    THEN tg_Error("", FALSE, <<" OPENAI_API_KEY not configured. AI transformation cannot proceed.">>)
    ELSE IF Len(markdown_text) = 0 \/ IsBlank(markdown_text)
    THEN tg_Error("", FALSE, <<" Parsed markdown is empty. Please re-parse the document before running GPT transformation.">>)
    ELSE LET prompt == SelectPrompt(prompt_type_or_custom)
             result == Strip(llm.content)
         IN CASE llm.kind = "response" /\ llm.has_content /\ Len(result) = 0 ->
                     \* line 260: the literal starts "U+2139 U+FE0F AI transformation"
                     [raised |-> FALSE, llm_called |-> TRUE, system_prompt |-> prompt,
                      value |-> <<"U+2139", "U+FE0F", " ", "A", "I",
                                  " transformation returned an empty result. You might want to try a different prompt or check the input document.">>]
              [] llm.kind = "response" /\ llm.has_content /\ Len(result) > 0 ->
                     [raised |-> FALSE, llm_called |-> TRUE, system_prompt |-> prompt,
                      value |-> EncodeDecodeReplace(result)]
              [] llm.kind = "response" /\ ~llm.has_content ->
                     \* None.strip(): AttributeError, caught at line 280
                     tg_Error(prompt, TRUE, <<" An unexpected error occurred during AI transformation. Details: ", "<e>">>)
              [] llm.kind = "AuthenticationError" ->
                     tg_Error(prompt, TRUE, <<" AI transformation failed due to an authentication issue with the OpenAI API. Please check your API key configuration.">>)
              [] llm.kind = "RateLimitError" ->
                     tg_Error(prompt, TRUE, <<" AI transformation failed because the API rate limit has been exceeded. Please try again later.">>)
              [] llm.kind = "APIConnectionError" ->
                     tg_Error(prompt, TRUE, <<" AI transformation failed due to a network issue connecting to the OpenAI API. Please check your internet connection.">>)
              [] llm.kind = "APIError" ->
                     tg_Error(prompt, TRUE, <<" AI transformation failed due to an OpenAI API error. Details: ", "<e>">>)
              [] llm.kind = "Exception" ->
                     tg_Error(prompt, TRUE, <<" An unexpected error occurred during AI transformation. Details: ", "<e>">>)

(***************************************************************************)
(* extract_images_from_pdf (parser_logic.py 132-158).                      *)
(***************************************************************************)
\* convert_from_path: returns the page images or raises; saves[i] tells whether
\* img.save of page i succeeds (FALSE: it raises)
ConvertBehaviours ==
    [kind : {"pages"}, saves : SeqsUpTo(BOOLEAN, MaxPages)]
        \cup {[kind |-> "Exception", saves |-> <<>>]}

ex_NoRet == [raised |-> FALSE, value |-> <<>>]

\* the loop of lines 149-153 from page i on: image_paths is the list built so
\* far; an exception of img.save ends the loop with what was appended before
\* it.  A saved file is named by its page number (its uuid part is random).
RECURSIVE SavePages(_, _, _)
SavePages(saves, i, image_paths) ==
    IF i > Len(saves) THEN image_paths
    ELSE IF ~saves[i] THEN image_paths
    ELSE SavePages(saves, i + 1, Append(image_paths, i))

extract_images_from_pdf(makedirs_ok, convert) ==
    IF ~makedirs_ok
    THEN [raised |-> TRUE, value |-> <<>>]        \* line 145 is outside the try
    ELSE IF convert.kind = "Exception"
    THEN [raised |-> FALSE, value |-> <<>>]
    ELSE [raised |-> FALSE, value |-> SavePages(convert.saves, 1, <<>>)]

(***************************************************************************)
(* json.loads, str() and pandas.DataFrame as handle_export_buttons uses    *)
(* them.  A JSON text is a sequence of units: the characters [ ] { } , : 1 *)
(* x, the string literal "a" (quotes included) as one unit, and two long   *)
(* chunks as one unit each: Ones4300, the digit 1 written 4300 times, and  *)
(* DeepArrays, the character [ written 100000 times.                       *)
(***************************************************************************)
StrLit == "\"a\""
Ones4300 == "1{4300}"
DeepArrays == "[{100000}"
ExportChars == {"[", "]", "{", "}", ",", ":", "1", StrLit, "x", Ones4300, DeepArrays}

\* sys.int_info.default_max_str_digits: int(text) raises ValueError for a
\* literal of more digits, and so does json.loads
MaxStrDigits == 4300

\* Python values: int, str (a sequence of units), list, dict (keys in insertion
\* order, vals[i] the value of keys[i]) and None
JInt(n) == [t |-> "int", n |-> n, s |-> <<>>, items |-> <<>>, keys |-> <<>>]
\* an int of MaxStrDigits digits: held by its digits d, n is not used
JBigInt(d) == [t |-> "int", n |-> -1, s |-> d, items |-> <<>>, keys |-> <<>>]
JStr(u) == [t |-> "str", n |-> 0, s |-> u, items |-> <<>>, keys |-> <<>>]
JList(xs) == [t |-> "list", n |-> 0, s |-> <<>>, items |-> xs, keys |-> <<>>]
JDict(ks, vs) == [t |-> "dict", n |-> 0, s |-> <<>>, items |-> vs, keys |-> ks]
JNone == [t |-> "None", n |-> 0, s |-> <<>>, items |-> <<>>, keys |-> <<>>]

\* d[k] = v on a dict: a key already present keeps its place and takes v
DictSet(d, k, v) ==
    IF \E i \in 1..Len(d.keys) : d.keys[i] = k
    THEN JDict(d.keys, [i \in 1..Len(d.keys) |-> IF d.keys[i] = k THEN v ELSE d.items[i]])
    ELSE JDict(Append(d.keys, k), Append(d.items, v))

\* d.get(k)
DictGet(d, k) ==
    IF \E i \in 1..Len(d.keys) : d.keys[i] = k
    THEN d.items[CHOOSE i \in 1..Len(d.keys) : d.keys[i] = k]
    ELSE JNone

\* the outcome of decoding: a value and the unit after it, or the exception
\* raised ("JSONDecodeError", "ValueError" or "RecursionError")
ParseFail(err) == [ok |-> FALSE, val |-> JNone, next |-> 0, err |-> err]
ParseOk(v, next) == [ok |-> TRUE, val |-> v, next |-> next, err |-> ""]

\* the end of the run of digits that starts at i
RECURSIVE DigitsEnd(_, _)
DigitsEnd(s, i) ==
    IF i <= Len(s) /\ s[i] \in {"1", Ones4300} THEN DigitsEnd(s, i + 1) ELSE i

\* the number of digits of the units i .. e-1 of s
RECURSIVE DigitCount(_, _, _)
DigitCount(s, i, e) ==
    IF i >= e THEN 0
    ELSE (IF s[i] = Ones4300 THEN MaxStrDigits ELSE 1) + DigitCount(s, i + 1, e)

\* the int written by k digits 1
RECURSIVE Ones(_)
Ones(k) == IF k = 0 THEN 0 ELSE 10 * Ones(k - 1) + 1

\* the int literal of the units i .. e-1: ValueError when it has more than
\* MaxStrDigits digits
ParseInt(s, i, e) ==
    IF DigitCount(s, i, e) > MaxStrDigits THEN ParseFail("ValueError")
    ELSE IF s[i] = Ones4300 THEN ParseOk(JBigInt(SubSeq(s, i, e - 1)), e)
    ELSE ParseOk(JInt(Ones(e - i)), e)

\* the JSON decoder: the value that starts at unit i of s.  The decoder
\* descends one level per [ and raises RecursionError inside DeepArrays, before
\* it looks at what follows
RECURSIVE ParseValue(_, _), ParseElements(_, _, _), ParseMembers(_, _, _)
ParseValue(s, i) ==
    IF i > Len(s) THEN ParseFail("JSONDecodeError")
    ELSE IF s[i] \in {"1", Ones4300} THEN ParseInt(s, i, DigitsEnd(s, i))
    ELSE IF s[i] = StrLit THEN ParseOk(JStr(<<"a">>), i + 1)
    ELSE IF s[i] = DeepArrays THEN ParseFail("RecursionError")
    ELSE IF s[i] = "["
    THEN IF i + 1 <= Len(s) /\ s[i + 1] = "]" THEN ParseOk(JList(<<>>), i + 2)
         ELSE ParseElements(s, i + 1, <<>>)
    ELSE IF s[i] = "{"
    THEN IF i + 1 <= Len(s) /\ s[i + 1] = "}" THEN ParseOk(JDict(<<>>, <<>>), i + 2)
         ELSE ParseMembers(s, i + 1, JDict(<<>>, <<>>))
    ELSE ParseFail("JSONDecodeError")

\* the elements of an array from unit i on, after those in acc
ParseElements(s, i, acc) ==
    LET r == ParseValue(s, i)
    IN IF ~r.ok THEN r
       ELSE IF r.next > Len(s) THEN ParseFail("JSONDecodeError")
       ELSE IF s[r.next] = "]" THEN ParseOk(JList(Append(acc, r.val)), r.next + 1)
       ELSE IF s[r.next] = "," THEN ParseElements(s, r.next + 1, Append(acc, r.val))
       ELSE ParseFail("JSONDecodeError")

\* the members of an object from unit i on, after those in acc
ParseMembers(s, i, acc) ==
    IF i + 1 > Len(s) \/ s[i] # StrLit \/ s[i + 1] # ":" THEN ParseFail("JSONDecodeError")
    ELSE LET r == ParseValue(s, i + 2)
         IN IF ~r.ok THEN r
            ELSE IF r.next > Len(s) THEN ParseFail("JSONDecodeError")
            ELSE IF s[r.next] = "}" THEN ParseOk(DictSet(acc, <<"a">>, r.val), r.next + 1)
            ELSE IF s[r.next] = "," THEN ParseMembers(s, r.next + 1, DictSet(acc, <<"a">>, r.val))
            ELSE ParseFail("JSONDecodeError")

\* json.loads(text): the value, or the exception raised; text after the value
\* is found, and raises JSONDecodeError, only once the value is decoded
json_loads(text) ==
    LET r == ParseValue(text, 1)
    IN IF r.ok /\ r.next # Len(text) + 1 THEN ParseFail("JSONDecodeError") ELSE r

\* str(n) for an int n >= 0
DecimalDigits == <<"0", "1", "2", "3", "4", "5", "6", "7", "8", "9">>
RECURSIVE IntStr(_)
IntStr(n) == IF n < 10 THEN <<DecimalDigits[n + 1]>>
             ELSE IntStr(n \div 10) \o <<DecimalDigits[(n % 10) + 1]>>

\* repr(v); and str(v), which differs from repr(v) for a str alone
RECURSIVE PyRepr(_), PyReprItems(_, _), PyReprMembers(_, _)
PyRepr(v) ==
    CASE v.t = "int" -> (IF v.s = <<>> THEN IntStr(v.n) ELSE v.s)
      [] v.t = "str" -> <<"'">> \o v.s \o <<"'">>
      [] v.t = "list" -> <<"[">> \o PyReprItems(v.items, 1) \o <<"]">>
      [] v.t = "dict" -> <<"{">> \o PyReprMembers(v, 1) \o <<"}">>
      [] v.t = "None" -> <<"N", "o", "n", "e">>
PyReprItems(xs, i) ==
    IF i > Len(xs) THEN <<>>
    ELSE (IF i > 1 THEN <<",", " ">> ELSE <<>>) \o PyRepr(xs[i]) \o PyReprItems(xs, i + 1)
PyReprMembers(d, i) ==
    IF i > Len(d.keys) THEN <<>>
    ELSE (IF i > 1 THEN <<",", " ">> ELSE <<>>)
             \o <<"'">> \o d.keys[i] \o <<"'", ":", " ">> \o PyRepr(d.items[i])
             \o PyReprMembers(d, i + 1)
PyStrOf(v) == IF v.t = "str" THEN v.s ELSE PyRepr(v)

\* the column labels of pandas.DataFrame(records): the keys of the dicts in
\* order of first appearance
RECURSIVE FrameColumns(_, _, _)
FrameColumns(records, i, cols) ==
    IF i > Len(records) THEN cols
    ELSE FrameColumns(records, i + 1,
            cols \o SelectSeq(records[i].keys,
                              LAMBDA k : \A j \in 1..Len(cols) : cols[j] # k))

\* pandas.DataFrame(records) for a list of dicts: one row per dict, a cell
\* being the dict's value for the column or None (NaN) when it has none
DataFrameOfRecords(records) ==
    LET cols == FrameColumns(records, 1, <<>>)
    IN [columns |-> cols,
        rows |-> [i \in 1..Len(records) |->
                     [j \in 1..Len(cols) |-> DictGet(records[i], cols[j])]]]

\* pandas.DataFrame({label: [cell]})
DataFrameOfColumn(label, cell) == [columns |-> <<label>>, rows |-> <<<<cell>>>>]

\* df.empty
FrameEmpty(df) == Len(df.rows) = 0 \/ Len(df.columns) = 0

(***************************************************************************)
(* handle_export_buttons (streamlit_app.py 60-114).                        *)
(***************************************************************************)
\* texts of more than MaxExportLen units that the LLM may answer with
SampleTexts ==
    { <<"[", "{", "}", ",", "{", "}", "]">>,
      <<"[", "{", StrLit, ":", "1", "}", ",", "{", StrLit, ":", StrLit, "}", "]">>,
      <<"[", "{", StrLit, ":", "1", "}", ",", "1", "]">>,
      <<"{", StrLit, ":", "1", ",", StrLit, ":", "1", "1", "}">>,
      <<"{", StrLit, ":", "[", "1", ",", StrLit, "]", "}">>,
      <<"[", "{", StrLit, ":", "1", ",", StrLit, ":", StrLit, "}", ",", "1", "]">>,
      <<"[", "{", StrLit, ":", Ones4300, "}", ",", "[", "]", "]">>,
      <<"{", StrLit, ":", "1", ",", StrLit, ":", "1", Ones4300, "}">> }
ExportTexts == SeqsUpTo(ExportChars, MaxExportLen) \cup SampleTexts

NoFrame == [columns |-> <<>>, rows |-> <<>>]
he_NoRet == [raised |-> FALSE, downloads |-> <<>>, errors |-> <<>>, preview |-> FALSE,
             json_obj |-> JNone, df |-> NoFrame]

\* lines 79-83: json.loads; the flat record when it raises JSONDecodeError, the
\* one exception line 81 catches; any other exception leaves the function
LoadJsonObj(transformed_text) ==
    LET loaded == json_loads(transformed_text)
    IN IF loaded.ok THEN [raised |-> FALSE, json_obj |-> loaded.val]
       ELSE IF loaded.err = "JSONDecodeError"
       THEN [raised |-> FALSE,
             json_obj |-> JDict(<< <<"ai_output">> >>, <<JStr(transformed_text)>>)]
       ELSE [raised |-> TRUE, json_obj |-> JNone]

\* isinstance(json_obj, list) and all(isinstance(item, dict) for item in json_obj)
IsListOfDicts(json_obj) ==
    json_obj.t = "list" /\ \A i \in 1..Len(json_obj.items) : json_obj.items[i].t = "dict"

\* lines 86-91: the DataFrame built from json_obj
BuildFrame(json_obj) ==
    IF IsListOfDicts(json_obj) THEN DataFrameOfRecords(json_obj.items)
    ELSE IF json_obj.t = "dict" THEN DataFrameOfRecords(<<json_obj>>)
    ELSE DataFrameOfColumn(<<"AI Output">>, JStr(PyStrOf(json_obj)))

\* line 100: "\ufeff" + df.to_csv(index=False, sep=";").encode("utf-8") adds a
\* str and a bytes object, which raises TypeError whatever df is
CsvExportRaises(df) == TRUE

\* lines 65-76: the DOCX button, or the error when python-docx raises
DocxPart(docx_ok) ==
    IF docx_ok THEN [downloads |-> <<"ai_output.docx">>, errors |-> <<>>]
    ELSE [downloads |-> <<>>, errors |-> <<"Error creating DOCX">>]

\* lines 93-114: what follows the DataFrame, for a frame that is not empty
TablePart(transformed_text, json_obj, df) ==
    IF FrameEmpty(df) THEN [downloads |-> <<>>, errors |-> <<>>]
    ELSE IF CsvExportRaises(df)
    THEN [downloads |-> <<"ai_output.json">>
                          \o (IF json_obj.t # "dict"
                                  \/ DictGet(json_obj, <<"ai_output">>) # JStr(transformed_text)
                               THEN <<"ai_output_raw.json">> ELSE <<>>),
          errors |-> <<"Error preparing data for Table/JSON/CSV/Excel export">>]
    ELSE [downloads |-> <<"ai_output.json", "ai_output.csv", "ai_output.xlsx">>,
          errors |-> <<>>]

\* lines 60-114: the buttons of lines 62-76 are on the page before line 80 is
\* reached; an exception of line 80 that line 81 does not catch ends the call
handle_export_buttons(transformed_text, docx_ok) ==
    LET loaded == LoadJsonObj(transformed_text)
        json_obj == loaded.json_obj
        df == BuildFrame(json_obj)
        docx == DocxPart(docx_ok)
        table == TablePart(transformed_text, json_obj, df)
    IN IF loaded.raised
       THEN [raised |-> TRUE,
             downloads |-> <<"ai_output.txt", "ai_output.md">> \o docx.downloads,
             errors |-> docx.errors,
             preview |-> FALSE,
             json_obj |-> JNone,
             df |-> NoFrame]
       ELSE [raised |-> FALSE,
             downloads |-> <<"ai_output.txt", "ai_output.md">> \o docx.downloads \o table.downloads,
             errors |-> docx.errors \o table.errors,
             preview |-> ~FrameEmpty(df),
             json_obj |-> json_obj,
             df |-> df]

(***************************************************************************)
(* The script of streamlit_app.py (lines 117-213), run once per rerun.     *)
(***************************************************************************)
GPT_MIN_TEXT_LENGTH == 100

FileNames == {"a.pdf", "b.pdf"}
NoFile == "<no file>"

\* st.session_state: "last_file_name" and "parsed_text_or_error" may be absent;
\* temp_pdf_path is 0 for an absent key or None, else the number of a temp file
NewSession ==
    [has_last_file_name |-> FALSE, last_file_name |-> NoFile,
     has_parsed |-> FALSE, parsed_text_or_error |-> <<>>,
     temp_pdf_path |-> 0]

NoRun ==
    [uploaded |-> NoFile, button |-> FALSE, calls |-> <<>>, crashed |-> FALSE,
     cleared |-> FALSE, name_changed |-> FALSE, wrote_temp |-> 0, parse_path |-> 0,
     button_rendered |-> FALSE, lang |-> "", system_prompt |-> ""]

\* what the external services do in the app's runs
TextOfLength(n) == [i \in 1..n |-> "a"]
Doc(text) == [has_text |-> TRUE, text |-> text]
AppParserBehaviours ==
    { [kind |-> "APIError", docs |-> <<>>],
      [kind |-> "docs", docs |-> <<>>],
      [kind |-> "docs", docs |-> <<Doc(TextOfLength(GPT_MIN_TEXT_LENGTH))>>],
      [kind |-> "docs", docs |-> <<Doc(<<" ">> \o TextOfLength(GPT_MIN_TEXT_LENGTH - 1))>>],
      [kind |-> "docs", docs |-> <<Doc(TextOfLength(49)), Doc(TextOfLength(49))>>] }
AppLlmBehaviours ==
    { [kind |-> "response", has_content |-> TRUE, content |-> <<"a">>],
      [kind |-> "response", has_content |-> TRUE, content |-> <<" ">>],
      [kind |-> "response", has_content |-> TRUE, content |-> <<"[", "1", "]">>],
      [kind |-> "response", has_content |-> TRUE, content |-> <<"1", Ones4300>>],
      [kind |-> "AuthenticationError", has_content |-> FALSE, content |-> <<>>] }
AppConvertBehaviours ==
    { [kind |-> "Exception", saves |-> <<>>],
      [kind |-> "pages", saves |-> <<>>],
      [kind |-> "pages", saves |-> <<TRUE, TRUE>>] }
AppUserPrompts == {"", "table", "Translate to French."}

\* the order of the sections of the success branch as the system overview has
\* it: the image extractors before the GPT section
NextSection_images_first(section) ==
    CASE section = "metadata" -> "images"
      [] section = "images" -> "embedded"
      [] section = "embedded" -> "gpt"
      [] section = "gpt" -> "idle"

\* lines 151-204: the section that follows each section of the success branch
NextSection(section) ==
    CASE section = "metadata" -> "gpt"
      [] section = "gpt" -> "images"
      [] section = "images" -> "embedded"
      [] section = "embedded" -> "idle"

\* the variant of line 139 that parses on every run
NeedsParse_always(ss) == TRUE

\* lines 125-128: the session state after the check of the uploaded name
AfterNameCheck(ss, name) ==
    IF ~ss.has_last_file_name \/ name # ss.last_file_name
    THEN [ss EXCEPT !.has_parsed = FALSE, !.parsed_text_or_error = <<>>,
                    !.has_last_file_name = TRUE, !.last_file_name = name,
                    !.temp_pdf_path = 0]
    ELSE ss

\* line 125: whether the branch that clears the state is taken
NameCheckClears(ss, name) == ~ss.has_last_file_name \/ name # ss.last_file_name

\* line 131: not st.session_state.get("temp_pdf_path")
NeedsTempFile(ss) == ss.temp_pdf_path = 0

\* line 139: "parsed_text_or_error" not in st.session_state
NeedsParse(ss) == ~ss.has_parsed

\* lines 151, 206-210: nothing follows a parse error
AfterParse(parsed_text_or_error) ==
    IF StartsWith(parsed_text_or_error, ERROR_PREFIX) THEN "idle" ELSE "metadata"

\* lines 123-136 for an uploaded file: the name check and the temp file
AfterUpload(ss, name) ==
    LET checked == AfterNameCheck(ss, name)
    IN IF NeedsTempFile(checked)
       THEN [checked EXCEPT !.temp_pdf_path = temp_files + 1]
       ELSE checked

\* the record of a run that starts with file `name`
RunStart(ss, name, button) ==
    [NoRun EXCEPT !.uploaded = name, !.button = button,
                  !.cleared = NameCheckClears(ss, name),
                  !.name_changed = (name # uploaded_prev),
                  !.wrote_temp = IF NeedsTempFile(AfterNameCheck(ss, name))
                                 THEN temp_files + 1 ELSE 0]

\* line 178: st.button returns True only in a run that a click started, and a
\* click needs the button on the page: the last run drew it (line 178 was
\* reached, whatever happened after it), for the same file
ButtonChoices(name) ==
    IF run.button_rendered /\ run.uploaded = name
    THEN BOOLEAN ELSE {FALSE}

\* line 13: from parser_logic import (...).  Python compiles parser_logic.py as
\* a whole; as the file stands its lines 174-207 (extract_embedded_images) do
\* not compile, so the import raises SyntaxError in every run, before line 118:
\* nothing is drawn, no file is read, nothing is called and the session state
\* is not touched
StartRunImportError ==
    /\ pc = "idle"
    /\ ~env.parser_logic_imports
    /\ run' = [NoRun EXCEPT !.crashed = TRUE]
    /\ UNCHANGED <<pc, env, session_state, temp_files, uploaded_prev, parses_for_name, vars_fn>>

\* lines 121, 212-213: a run without an uploaded file
StartRunNoFile ==
    /\ pc = "idle"
    /\ env.parser_logic_imports
    /\ run' = NoRun
    /\ UNCHANGED <<pc, env, session_state, temp_files, uploaded_prev, parses_for_name, vars_fn>>

\* lines 123-148 when the text of the file is in the session state
StartRunCached ==
    /\ pc = "idle"
    /\ env.parser_logic_imports
    /\ \E name \in FileNames : \E button \in ButtonChoices(name) :
         LET ss == AfterUpload(session_state, name)
             r == RunStart(session_state, name, button)
         IN /\ ~NeedsParse(ss)
            /\ r.wrote_temp = 0 \/ temp_files < MaxTempFiles
            /\ session_state' = ss
            /\ temp_files' = IF r.wrote_temp = 0 THEN temp_files ELSE temp_files + 1
            /\ run' = r
            /\ uploaded_prev' = name
            /\ parses_for_name' = IF r.name_changed THEN 0 ELSE parses_for_name
            /\ pc' = AfterParse(ss.parsed_text_or_error)
    /\ UNCHANGED <<env, vars_fn>>

\* lines 123-148 when it is not: parse_pdf is called on the temp file
StartRunParse ==
    /\ pc = "idle"
    /\ env.parser_logic_imports
    /\ \E name \in FileNames : \E button \in ButtonChoices(name) :
       \E behaviour \in AppParserBehaviours :
         LET ss == AfterUpload(session_state, name)
             r == RunStart(session_state, name, button)
             parsed == parse_pdf(env.llama_key, behaviour)
         IN /\ NeedsParse(ss)
            /\ r.wrote_temp = 0 \/ temp_files < MaxTempFiles
            /\ session_state' = [ss EXCEPT !.has_parsed = TRUE,
                                           !.parsed_text_or_error = parsed.value]
            /\ temp_files' = IF r.wrote_temp = 0 THEN temp_files ELSE temp_files + 1
            /\ run' = [r EXCEPT !.calls = <<"parse_pdf">>, !.parse_path = ss.temp_pdf_path]
            /\ uploaded_prev' = name
            /\ parses_for_name' = (IF r.name_changed THEN 0 ELSE parses_for_name) + 1
            /\ pc' = AfterParse(parsed.value)
    /\ UNCHANGED <<env, vars_fn>>

\* lines 155-161: the metadata section
MetadataSection ==
    /\ pc = "metadata"
    /\ \E detector \in DetectorBehaviours :
         LET lang == detect_language(session_state.parsed_text_or_error, detector)
         IN run' = [run EXCEPT !.lang = lang.value,
                               !.calls = @ \o <<"detect_language", "contains_tables",
                                                 "contains_images">>]
    /\ pc' = NextSection("metadata")
    /\ UNCHANGED <<env, session_state, temp_files, uploaded_prev, parses_for_name, vars_fn>>

\* line 167
GptEnabled(parsed_text) == Len(Strip(parsed_text)) >= GPT_MIN_TEXT_LENGTH

\* lines 193-194: the text is too short for the GPT section
GptSectionDisabled ==
    /\ pc = "gpt"
    /\ ~GptEnabled(session_state.parsed_text_or_error)
    /\ pc' = NextSection("gpt")
    /\ UNCHANGED <<env, session_state, temp_files, run, uploaded_prev, parses_for_name, vars_fn>>

\* lines 168-178 in a run that no click on the button started
GptSectionNoClick ==
    /\ pc = "gpt"
    /\ GptEnabled(session_state.parsed_text_or_error)
    /\ ~run.button
    /\ run' = [run EXCEPT !.button_rendered = TRUE]
    /\ pc' = NextSection("gpt")
    /\ UNCHANGED <<env, session_state, temp_files, uploaded_prev, parses_for_name, vars_fn>>

\* line 180 with "Use custom prompt" checked and an empty text area:
\* user_prompt_input or transform_type reads transform_type, which this run
\* never assigned, and raises NameError
PromptArgumentRaises(use_custom_prompt, user_prompt_input) ==
    use_custom_prompt /\ user_prompt_input = ""

\* lines 178-180: the run of a click that ends in that NameError
GptSectionNameError ==
    /\ pc = "gpt"
    /\ GptEnabled(session_state.parsed_text_or_error)
    /\ run.button
    /\ \E use_custom_prompt \in BOOLEAN : \E user_prompt_input \in AppUserPrompts :
         PromptArgumentRaises(use_custom_prompt, user_prompt_input)
    /\ run' = [run EXCEPT !.button_rendered = TRUE, !.crashed = TRUE]
    /\ pc' = "idle"
    /\ UNCHANGED <<env, session_state, temp_files, uploaded_prev, parses_for_name, vars_fn>>

\* line 180: the argument user_prompt_input or transform_type
PromptArgument(use_custom_prompt, user_prompt_input, transform_type) ==
    IF use_custom_prompt THEN PyStr(user_prompt_input) ELSE PyStr(transform_type)

\* lines 182-192: the calls that follow the transformation
AfterTransform(transformed_output) ==
    IF StartsWith(transformed_output, ERROR_PREFIX) THEN <<>>
    ELSE IF StartsWith(transformed_output, INFO_PREFIX) THEN <<>>
    ELSE <<"handle_export_buttons">>

\* line 192: handle_export_buttons raises, which ends the run
ExportRaises(transformed_output) ==
    /\ AfterTransform(transformed_output) # <<>>
    /\ \A docx_ok \in BOOLEAN : handle_export_buttons(transformed_output, docx_ok).raised

\* lines 178-192: the run of a click on "Transform with GPT"
GptSectionClick ==
    /\ pc = "gpt"
    /\ GptEnabled(session_state.parsed_text_or_error)
    /\ run.button
    /\ \E use_custom_prompt \in BOOLEAN : \E user_prompt_input \in AppUserPrompts :
       \E transform_type \in PresetKeys : \E llm \in AppLlmBehaviours :
         /\ ~PromptArgumentRaises(use_custom_prompt, user_prompt_input)
         /\ LET out == transform_markdown_with_gpt(
                           env.openai_key, session_state.parsed_text_or_error,
                           PromptArgument(use_custom_prompt, user_prompt_input, transform_type),
                           llm)
            IN /\ run' = [run EXCEPT !.button_rendered = TRUE,
                                     !.system_prompt = out.system_prompt,
                                     !.calls = @ \o <<"transform_markdown_with_gpt">>
                                                 \o AfterTransform(out.value),
                                     !.crashed = ExportRaises(out.value)]
               /\ pc' = IF ExportRaises(out.value) THEN "idle" ELSE NextSection("gpt")
    /\ UNCHANGED <<env, session_state, temp_files, uploaded_prev, parses_for_name, vars_fn>>

\* lines 34-57: display_image_gallery names os, which streamlit_app.py never
\* imports: with a non-empty list every path of the loop body ends in NameError
GalleryRaises(image_paths) == Len(image_paths) > 0

\* lines 200-201: the page images and their gallery
ImageSection ==
    /\ pc = "images"
    /\ \E makedirs_ok \in BOOLEAN : \E convert \in AppConvertBehaviours :
         LET page_images == extract_images_from_pdf(makedirs_ok, convert)
             ends == page_images.raised \/ GalleryRaises(page_images.value)
         IN /\ run' = [run EXCEPT !.calls = @ \o <<"extract_images_from_pdf">>,
                                   !.crashed = ends]
            /\ pc' = IF ends THEN "idle" ELSE NextSection("images")
    /\ UNCHANGED <<env, session_state, temp_files, uploaded_prev, parses_for_name, vars_fn>>

\* lines 203-204: the embedded images (PyMuPDF) and their gallery; what
\* extract_embedded_images returns is an input: it raises, or returns no path
\* or some paths, and the gallery raises on a non-empty list
EmbeddedSection ==
    /\ pc = "embedded"
    /\ \E outcome \in {"raises", "none", "some"} :
         /\ run' = [run EXCEPT !.calls = @ \o <<"extract_embedded_images">>,
                               !.crashed = (outcome # "none")]
         /\ pc' = IF outcome # "none" THEN "idle" ELSE NextSection("embedded")
    /\ UNCHANGED <<env, session_state, temp_files, uploaded_prev, parses_for_name, vars_fn>>

AppIdle ==
    /\ env = [llama_key |-> FALSE, openai_key |-> FALSE, parser_logic_imports |-> FALSE]
    /\ session_state = NewSession
    /\ temp_files = 0
    /\ run = NoRun
    /\ uploaded_prev = NoFile
    /\ parses_for_name = 0

ExportIdle == he_text = <<>> /\ he_ret = he_NoRet
ImagesIdle ==
    ex_makedirs = TRUE /\ ex_convert = [kind |-> "Exception", saves |-> <<>>] /\ ex_ret = ex_NoRet
TransformIdle ==
    /\ tg_key = FALSE /\ tg_markdown = <<>> /\ tg_prompt = PyNone
    /\ tg_llm = [kind |-> "Exception", has_content |-> FALSE, content |-> <<>>]
    /\ tg_ret = tg_NoRet
ParseIdle == pp_key = FALSE /\ pp_parser = [kind |-> "Exception", docs |-> <<>>] /\ pp_ret = pp_NoRet
LangIdle == dl_text = <<>> /\ dl_detector = [raises |-> FALSE, code |-> "en"] /\ dl_ret = dl_NoRet

LangInit ==
    /\ pc = "call"
    /\ AppIdle
    /\ ExportIdle
    /\ ImagesIdle
    /\ ParseIdle
    /\ TransformIdle
    /\ dl_text \in SeqsUpTo(LangChars, MaxLangLen)
    /\ dl_detector \in DetectorBehaviours
    /\ dl_ret = dl_NoRet

CallDetectLanguage ==
    /\ pc = "call"
    /\ dl_ret' = detect_language(dl_text, dl_detector)
    /\ pc' = "return"
    /\ UNCHANGED <<dl_text, dl_detector, vars_pp, vars_tg, vars_ex, vars_he, vars_app>>

LangNext == CallDetectLanguage

SpecLang == LangInit /\ [][LangNext]_vars

ParseInit ==
    /\ pc = "call"
    /\ AppIdle
    /\ ExportIdle
    /\ ImagesIdle
    /\ LangIdle
    /\ TransformIdle
    /\ pp_key \in BOOLEAN
    /\ pp_parser \in ParserBehaviours
    /\ pp_ret = pp_NoRet

CallParsePdf ==
    /\ pc = "call"
    /\ pp_ret' = parse_pdf(pp_key, pp_parser)
    /\ pc' = "return"
    /\ UNCHANGED <<pp_key, pp_parser, vars_dl, vars_tg, vars_ex, vars_he, vars_app>>

ParseNext == CallParsePdf

SpecParse == ParseInit /\ [][ParseNext]_vars

TransformInit ==
    /\ pc = "call"
    /\ AppIdle
    /\ ExportIdle
    /\ ImagesIdle
    /\ LangIdle
    /\ ParseIdle
    /\ tg_key \in BOOLEAN
    /\ tg_markdown \in SeqsUpTo(MarkdownChars, MaxMarkdownLen)
    /\ tg_prompt \in PromptArgs
    /\ tg_llm \in LlmBehaviours
    /\ tg_ret = tg_NoRet

CallTransform ==
    /\ pc = "call"
    /\ tg_ret' = transform_markdown_with_gpt(tg_key, tg_markdown, tg_prompt, tg_llm)
    /\ pc' = "return"
    /\ UNCHANGED <<tg_key, tg_markdown, tg_prompt, tg_llm, vars_dl, vars_pp, vars_ex, vars_he, vars_app>>

TransformNext == CallTransform

SpecTransform == TransformInit /\ [][TransformNext]_vars

ImagesInit ==
    /\ pc = "call"
    /\ AppIdle
    /\ ExportIdle
    /\ LangIdle
    /\ ParseIdle
    /\ TransformIdle
    /\ ex_makedirs \in BOOLEAN
    /\ ex_convert \in ConvertBehaviours
    /\ ex_ret = ex_NoRet

CallExtractImages ==
    /\ pc = "call"
    /\ ex_ret' = extract_images_from_pdf(ex_makedirs, ex_convert)
    /\ pc' = "return"
    /\ UNCHANGED <<ex_makedirs, ex_convert, vars_dl, vars_pp, vars_tg, vars_he, vars_app>>

ImagesNext == CallExtractImages

SpecImages == ImagesInit /\ [][ImagesNext]_vars

ExportInit ==
    /\ pc = "call"
    /\ AppIdle
    /\ LangIdle
    /\ ParseIdle
    /\ TransformIdle
    /\ ImagesIdle
    /\ he_text \in ExportTexts
    /\ he_ret = he_NoRet

CallHandleExportButtons ==
    /\ pc = "call"
    /\ \E docx_ok \in BOOLEAN : he_ret' = handle_export_buttons(he_text, docx_ok)
    /\ pc' = "return"
    /\ UNCHANGED <<he_text, vars_dl, vars_pp, vars_tg, vars_ex, vars_app>>

ExportNext == CallHandleExportButtons

SpecExport == ExportInit /\ [][ExportNext]_vars

\* a new session.  parser_logic_imports is FALSE for parser_logic.py as it
\* stands and TRUE for the file with lines 174-207 made to compile, the only
\* build in which the script proper (lines 118-213) runs
AppInit ==
    /\ pc = "idle"
    /\ LangIdle
    /\ ParseIdle
    /\ TransformIdle
    /\ ImagesIdle
    /\ ExportIdle
    /\ env \in [llama_key : BOOLEAN, openai_key : BOOLEAN, parser_logic_imports : BOOLEAN]
    /\ session_state = NewSession
    /\ temp_files = 0
    /\ run = NoRun
    /\ uploaded_prev = NoFile
    /\ parses_for_name = 0

Next ==
    \/ StartRunImportError
    \/ StartRunNoFile
    \/ StartRunCached
    \/ StartRunParse
    \/ MetadataSection
    \/ GptSectionDisabled
    \/ GptSectionNoClick
    \/ GptSectionNameError
    \/ GptSectionClick
    \/ ImageSection
    \/ EmbeddedSection

Spec == AppInit /\ [][Next]_vars

\* the non-blank document texts joined by a blank line
RECURSIVE C4_Joined(_, _)
C4_Joined(documents, n) ==
    IF n = 0 THEN <<>>
    ELSE LET before == C4_Joined(documents, n - 1)
             d == documents[n]
         IN IF ~d.has_text \/ Strip(d.text) = <<>> THEN before
            ELSE IF before = <<>> /\ \A k \in 1..(n-1) : ~DocHasText(documents[k])
            THEN d.text
            ELSE before \o <<"\n", "\n">> \o d.text

C4_ExtractedText == C4_Joined(pp_parser.docs, Len(pp_parser.docs))

\* C4 as stated: parse_pdf never raises; it returns the non-blank document texts
\* joined by a blank line, or a string starting with ERROR_PREFIX; without the
\* API key it returns such an error string and does not call the parser.
C4_AsStated ==
    pc = "return" =>
        /\ ~pp_ret.raised
        /\ (pp_ret.value = C4_ExtractedText \/ StartsWith(pp_ret.value, ERROR_PREFIX))
        /\ (~pp_key => StartsWith(pp_ret.value, ERROR_PREFIX) /\ ~pp_ret.parser_called)

\* C4 amended: as stated, the returned text being the joined text with every
\* character that UTF-8 cannot encode (a lone surrogate) replaced by "?".
C4_ParsePdf ==
    pc = "return" =>
        /\ ~pp_ret.raised
        /\ (~pp_key => StartsWith(pp_ret.value, ERROR_PREFIX) /\ ~pp_ret.parser_called)
        /\ (pp_key /\ pp_parser.kind = "docs" =>
                /\ Len(pp_ret.value) = Len(C4_ExtractedText)
                /\ \A i \in 1..Len(pp_ret.value) :
                       pp_ret.value[i] =
                           IF C4_ExtractedText[i] = Surrogate THEN "?" ELSE C4_ExtractedText[i])
        /\ (pp_key /\ pp_parser.kind # "docs" => StartsWith(pp_ret.value, ERROR_PREFIX))

C4_Witness ==
    /\ pc = "return"
    /\ pp_key
    /\ pp_parser.kind = "docs"
    /\ Len(pp_parser.docs) = 2
    /\ \A k \in 1..2 : DocHasText(pp_parser.docs[k])
    /\ \E i \in 1..Len(pp_ret.value) : pp_ret.value[i] = "?"

\* C7: detect_language never raises; the detector's code on success; "Unknown" whenever
\* detection fails, empty or whitespace-only input included, for which the
\* detector is not called.
C7_DetectLanguage ==
    pc = "return" =>
        /\ ~dl_ret.raised
        /\ (IsBlank(dl_text) => dl_ret.value = "Unknown" /\ ~dl_ret.detector_called)
        /\ (~IsBlank(dl_text) /\ dl_detector.raises => dl_ret.value = "Unknown")
        /\ (~IsBlank(dl_text) /\ ~dl_detector.raises => dl_ret.value = dl_detector.code)

\* the call succeeded: the LLM was reached and answered with non-blank content
C5_Success ==
    /\ tg_key
    /\ ~IsBlank(tg_markdown)
    /\ tg_llm.kind = "response"
    /\ tg_llm.has_content
    /\ ~IsBlank(tg_llm.content)

\* C5: transform_markdown_with_gpt never raises; on every failure or empty LLM
\* result the returned string starts with ERROR_PREFIX or INFO_PREFIX; a returned
\* string with neither prefix is a successful, non-empty transformation result.
C5_Transform ==
    pc = "return" =>
        /\ ~tg_ret.raised
        /\ (~C5_Success =>
                StartsWith(tg_ret.value, ERROR_PREFIX) \/ StartsWith(tg_ret.value, INFO_PREFIX))
        /\ (~StartsWith(tg_ret.value, ERROR_PREFIX) /\ ~StartsWith(tg_ret.value, INFO_PREFIX) =>
                C5_Success /\ Len(tg_ret.value) > 0)

\* C9: the system prompt sent to the LLM is the preset for a preset key, the
\* default prompt for None or the empty string, and any other string verbatim;
\* so a custom instruction equal to a preset key is replaced by that preset.
C9_PromptSelection ==
    pc = "return" /\ tg_ret.llm_called =>
        /\ (\A k \in {"table", "summary", "report", "article"} :
                tg_prompt = PyStr(k) => tg_ret.system_prompt = PRESET_GPT_PROMPTS[k])
        /\ (tg_prompt = PyNone \/ tg_prompt = PyStr("") =>
                tg_ret.system_prompt = "You are a helpful assistant.")
        /\ (~tg_prompt.none /\ tg_prompt.str \notin {"table", "summary", "report", "article", ""} =>
                tg_ret.system_prompt = tg_prompt.str)

C9_Witness ==
    /\ pc = "return"
    /\ tg_ret.llm_called
    /\ tg_prompt = PyStr("table")
    /\ tg_ret.system_prompt = PRESET_GPT_PROMPTS["table"]
    /\ tg_ret.system_prompt # "table"

\* a failure occurred at some point: converting the PDF or saving a page image
C6_Failure ==
    \/ ex_convert.kind = "Exception"
    \/ \E i \in 1..Len(ex_convert.saves) : ~ex_convert.saves[i]

\* C6: extract_images_from_pdf never raises and returns the empty list whenever
\* a failure occurs at any point (during PDF conversion or while saving any page
\* image); a non-empty list is returned only when every page was converted and
\* saved, in page order.  Stated for the calls whose output folder could be
\* created: the failures the claim names are those of conversion and saving.
C6_ExtractImages ==
    pc = "return" /\ ex_makedirs =>
        /\ ~ex_ret.raised
        /\ (C6_Failure => ex_ret.value = <<>>)
        /\ (ex_ret.value # <<>> =>
                /\ ~C6_Failure
                /\ ex_ret.value = [i \in 1..Len(ex_convert.saves) |-> i])

C2_Offered(file_name) == \E i \in 1..Len(he_ret.downloads) : he_ret.downloads[i] = file_name

\* C2: for every transformed text, valid JSON or not, handle_export_buttons
\* offers downloads as CSV, Excel, DOCX and JSON, besides TXT and Markdown.
C2_AllFormatsOffered ==
    pc = "return" =>
        /\ C2_Offered("ai_output.txt") /\ C2_Offered("ai_output.md")
        /\ C2_Offered("ai_output.csv") /\ C2_Offered("ai_output.xlsx")
        /\ C2_Offered("ai_output.docx") /\ C2_Offered("ai_output.json")

\* the grammar of JSON over the units: units i .. j of s are a value (a run of
\* digits, the string literal, an array of values or an object of members)
RECURSIVE C3_IsValue(_, _, _), C3_IsElements(_, _, _), C3_IsMembers(_, _, _)
C3_IsValue(s, i, j) ==
    /\ 1 <= i /\ i <= j /\ j <= Len(s)
    /\ \/ \A k \in i..j : s[k] \in {"1", Ones4300}
       \/ i = j /\ s[i] = StrLit
       \/ s[i] = "[" /\ s[j] = "]" /\ (j = i + 1 \/ C3_IsElements(s, i + 1, j - 1))
       \/ s[i] = "{" /\ s[j] = "}" /\ (j = i + 1 \/ C3_IsMembers(s, i + 1, j - 1))
C3_IsElements(s, i, j) ==
    /\ i <= j
    /\ \/ C3_IsValue(s, i, j)
       \/ \E k \in (i + 1)..(j - 1) :
             s[k] = "," /\ C3_IsValue(s, i, k - 1) /\ C3_IsElements(s, k + 1, j)
C3_IsMembers(s, i, j) ==
    /\ i + 2 <= j /\ s[i] = StrLit /\ s[i + 1] = ":"
    /\ \/ C3_IsValue(s, i + 2, j)
       \/ \E k \in (i + 3)..(j - 1) :
             s[k] = "," /\ C3_IsValue(s, i + 2, k - 1) /\ C3_IsMembers(s, k + 1, j)

\* the items of the elements i .. j of an array, each as <<first, last>>
RECURSIVE C3_Items(_, _, _)
C3_Items(s, i, j) ==
    IF C3_IsValue(s, i, j) THEN << <<i, j>> >>
    ELSE LET k == CHOOSE k \in (i + 1)..(j - 1) :
                      s[k] = "," /\ C3_IsValue(s, i, k - 1) /\ C3_IsElements(s, k + 1, j)
         IN << <<i, k - 1>> >> \o C3_Items(s, k + 1, j)

\* the value of the last of the members i .. j of an object, as <<first, last>>:
\* every member has the name "a", and the last one is the one that counts
RECURSIVE C3_LastValue(_, _, _)
C3_LastValue(s, i, j) ==
    IF C3_IsValue(s, i + 2, j) THEN <<i + 2, j>>
    ELSE LET k == CHOOSE k \in (i + 3)..(j - 1) :
                      s[k] = "," /\ C3_IsValue(s, i + 2, k - 1) /\ C3_IsMembers(s, k + 1, j)
         IN C3_LastValue(s, k + 1, j)

\* how Python writes the JSON value of units i .. j inside a list or a dict
RECURSIVE C3_Written(_, _, _), C3_WrittenItems(_, _)
C3_Written(s, i, j) ==
    IF s[i] \in {"1", Ones4300} THEN SubSeq(s, i, j)
    ELSE IF s[i] = StrLit THEN <<"'", "a", "'">>
    ELSE IF s[i] = "["
    THEN <<"[">> \o (IF j = i + 1 THEN <<>> ELSE C3_WrittenItems(s, C3_Items(s, i + 1, j - 1)))
               \o <<"]">>
    ELSE IF j = i + 1 THEN <<"{", "}">>
    ELSE LET v == C3_LastValue(s, i + 1, j - 1)
         IN <<"{", "'", "a", "'", ":", " ">> \o C3_Written(s, v[1], v[2]) \o <<"}">>
C3_WrittenItems(s, items) ==
    IF items = <<>> THEN <<>>
    ELSE C3_Written(s, items[1][1], items[1][2])
             \o (IF Len(items) > 1 THEN <<",", " ">> ELSE <<>>)
             \o C3_WrittenItems(s, Tail(items))

\* the string form of the JSON value s: a string is its characters
C3_StringForm(s) == IF s = <<StrLit>> THEN <<"a">> ELSE C3_Written(s, 1, Len(s))

\* the table C3 gives for the text of the call
C3_Table ==
    LET s == he_text
        df == he_ret.df
        valid == C3_IsValue(s, 1, Len(s))
        items == IF Len(s) = 2 THEN <<>> ELSE C3_Items(s, 2, Len(s) - 1)
        objects == valid /\ s[1] = "[" /\ \A k \in 1..Len(items) : s[items[k][1]] = "{"
    IN /\ (~valid =>
               /\ he_ret.json_obj.t = "dict"
               /\ he_ret.json_obj.keys = << <<"ai_output">> >>
               /\ he_ret.json_obj.items = <<JStr(s)>>
               /\ Len(df.rows) = 1
               /\ df.columns = << <<"ai_output">> >>
               /\ df.rows[1] = <<JStr(s)>>)
       /\ (objects => he_ret.json_obj.t = "list" /\ Len(df.rows) = Len(items))
       /\ (valid /\ s[1] = "{" => he_ret.json_obj.t = "dict" /\ Len(df.rows) = 1)
       /\ (valid /\ ~objects /\ s[1] # "{" =>
               /\ Len(df.rows) = 1
               /\ df.columns = << <<"AI Output">> >>
               /\ df.rows[1] = <<JStr(C3_StringForm(s))>>)

\* C3: a text that is not valid JSON gives the flat record {"ai_output": text}
\* and one table row; a JSON list of objects gives one row per item; a JSON
\* object gives exactly one row; any other JSON value gives one row with the
\* single column "AI Output" holding the value's string form; and no failure
\* of decoding the text leaves handle_export_buttons.
C3_Interpretation == pc = "return" => ~he_ret.raised /\ C3_Table

\* what the code keeps of it: every call of handle_export_buttons that returns
\* has built that table
C3_TableOfReturnedCalls == pc = "return" /\ ~he_ret.raised => C3_Table

\* the calls that do not return: json.loads raised ValueError (a literal of
\* more than MaxStrDigits digits) or RecursionError (DeepArrays)
C3_Raised == pc = "return" /\ he_ret.raised

\* a list of two objects became a table of two rows
C3_Witness ==
    /\ pc = "return"
    /\ he_text = <<"[", "{", StrLit, ":", "1", "}", ",", "{", StrLit, ":", StrLit, "}", "]">>
    /\ Len(he_ret.df.rows) = 2
    /\ he_ret.df.columns = << <<"a">> >>
    /\ he_ret.df.rows[1] = <<JInt(1)>>
    /\ he_ret.df.rows[2] = <<JStr(<<"a">>)>>

C1_Position(fn) == CHOOSE i \in 1..Len(run.calls) : run.calls[i] = fn
C1_Called(fn) == \E i \in 1..Len(run.calls) : run.calls[i] = fn
C1_InOrder(order) ==
    /\ \A i \in 1..Len(run.calls) : \E k \in 1..Len(order) : order[k] = run.calls[i]
    /\ \A i, j \in 1..Len(run.calls) :
          i < j => \A k, l \in 1..Len(order) :
                      order[k] = run.calls[i] /\ order[l] = run.calls[j] => k < l

\* C1 as stated: in a run on an uploaded PDF the steps occur in the order
\* parse_pdf, detect_language, contains_tables/contains_images, image
\* extraction, and only then the optional transform_markdown_with_gpt and the
\* export; no LLM call happens before the image extractor was called.
C1_AsStated ==
    /\ C1_InOrder(<<"parse_pdf", "detect_language", "contains_tables", "contains_images",
                    "extract_images_from_pdf", "extract_embedded_images",
                    "transform_markdown_with_gpt", "handle_export_buttons">>)
    /\ (C1_Called("transform_markdown_with_gpt") =>
            /\ C1_Called("extract_images_from_pdf")
            /\ C1_Position("extract_images_from_pdf") < C1_Position("transform_markdown_with_gpt"))

\* C1 amended: in a run on an uploaded PDF the steps that run occur in the
\* order parse_pdf (when the text is not cached), detect_language,
\* contains_tables/contains_images, the optional transform_markdown_with_gpt
\* followed by the export, and only then image extraction; no image extractor
\* is called before the LLM call of that run, and both come after the checks.
C1_PipelineOrder ==
    /\ C1_InOrder(<<"parse_pdf", "detect_language", "contains_tables", "contains_images",
                    "transform_markdown_with_gpt", "handle_export_buttons",
                    "extract_images_from_pdf", "extract_embedded_images">>)
    /\ (C1_Called("transform_markdown_with_gpt") \/ C1_Called("extract_images_from_pdf") =>
            /\ C1_Called("detect_language")
            /\ C1_Called("contains_tables")
            /\ C1_Called("contains_images"))
    /\ (C1_Called("handle_export_buttons") => C1_Called("transform_markdown_with_gpt"))
    /\ (C1_Called("extract_embedded_images") => C1_Called("extract_images_from_pdf"))
    /\ (pc = "idle" /\ ~run.crashed /\ C1_Called("detect_language") =>
            C1_Called("extract_images_from_pdf") /\ C1_Called("extract_embedded_images"))

\* a run that transformed, exported and then extracted the images
C1_Witness ==
    /\ run.calls = <<"detect_language", "contains_tables", "contains_images",
                     "transform_markdown_with_gpt", "handle_export_buttons",
                     "extract_images_from_pdf", "extract_embedded_images">>
    /\ pc = "idle"

\* C8: while the uploaded file's name does not change parse_pdf is called at
\* most once; in the run in which it changes the cached text and temp-file path
\* are cleared and parse_pdf is called exactly once, on a temp file written in
\* that run.
C8_ParseCache ==
    /\ parses_for_name <= 1
    /\ (run.uploaded # NoFile /\ run.name_changed =>
            /\ run.cleared
            /\ Cardinality({i \in 1..Len(run.calls) : run.calls[i] = "parse_pdf"}) = 1
            /\ run.wrote_temp # 0
            /\ run.wrote_temp = temp_files
            /\ run.parse_path = run.wrote_temp
            /\ session_state.temp_pdf_path = run.wrote_temp
            /\ session_state.has_parsed)
    /\ (run.uploaded # NoFile /\ ~run.name_changed /\ C1_Called("parse_pdf") =>
            parses_for_name = 1)

\* the second file of the session was parsed on its own temp file, and a later
\* run on the same file did not parse again
C8_Witness ==
    /\ temp_files = 2
    /\ run.uploaded = "b.pdf"
    /\ session_state.last_file_name = "b.pdf"
    /\ ~run.name_changed
    /\ ~C1_Called("parse_pdf")
    /\ parses_for_name = 1
    /\ session_state.temp_pdf_path = 2

====
